---- MODULE Spec2Model ----
(***************************************************************************)
(* Record and blob lifecycle of the file upload API (app.py): the          *)
(* uploaded_files table, the BACKUP_FOLDER directory, and the handlers     *)
(* upload_file, get_file_details, update_file, delete_file, download_file. *)
(*                                                                         *)
(* Spec     : one event loop; a handler holds no await, so each request    *)
(*            runs to completion before the next one starts.               *)
(* SpecConc : two worker processes serving one upload each; the steps of   *)
(*            upload_file (open, buffered writes, insert) interleave.      *)
(***************************************************************************)
EXTENDS Integers, Sequences, FiniteSets, TLC

VARIABLES table,    \* uploaded_files: id -> row
          disk,     \* BACKUP_FOLDER: file name -> bytes
          nextId,   \* next value of the primary key sequence
          now,      \* server clock, datetime.now(): it has advanced at each insert
          resp,     \* the request just served and its response
          pool,     \* the file names the clients of this run submit
          wpc,      \* SpecConc: position of each worker inside upload_file
          wreq,     \* SpecConc: the upload each worker is serving
          woff,     \* SpecConc: offset of each worker's open file
          wresp,    \* SpecConc: each worker's response
          lastWriter \* SpecConc: file name -> worker whose write hit it last

vars == <<table, disk, nextId, now, resp, pool, wpc, wreq, woff, wresp, lastWriter>>

-----------------------------------------------------------------------------
(* Bounds *)

MaxId == 2          \* rows ever inserted
ChunkLen == 2       \* bytes moved by one write of the copy loop

-----------------------------------------------------------------------------
(* Values *)

\* Python None / a supplied value
None == <<>>
Some(v) == <<v>>

Owners == {"alice", "bob"}

\* file bodies
Contents == {<<1, 2, 3>>, <<4>>}

\* str.isalnum() over the characters the inputs use
Alnum == {"a", "b", "d", "e", "f", "g", "j", "n", "p", "t", "x",
          "D", "F", "P", "1"}

\* str.lower()
LowerChar(c) ==
    CASE c = "P" -> "p"
      [] c = "D" -> "d"
      [] c = "F" -> "f"
      [] OTHER -> c

Lower(s) == [i \in 1..Len(s) |-> LowerChar(s[i])]

\* file.filename of the requests; the clients of one run draw from one pool
Pools ==
    { { <<"a", ".", "p", "d", "f">>,                     \* a.pdf
        <<"!", "!", ".", "P", "D", "F">>,                \* "!!.PDF" -> .PDF
        <<"a", ".", "e", "x", "e">> },                   \* a.exe
      { <<"b", ".", "j", "p", "g">>,                     \* b.jpg
        <<"a", "/", ".", "p", "d", "f">>,                \* a/.pdf: no extension
        <<>> },                                          \* no file selected
      { <<"b", ".", "j", "p", "e", "g">>,                \* b.jpeg
        <<"b", " ", "!", ".", "j", "p", "e", "g">>,      \* "b !.jpeg" -> b.jpeg
        <<"a", ".", "p", "d", "f", ".", "t", "x", "t">> }, \* a.pdf.txt
      { <<"b", ".", "p", "n", "g">>,                     \* b.png
        <<".", "p", "d", "f">>,                          \* .pdf: no extension
        <<"n", "o", "t", "e">> } }                       \* note

Filenames == UNION Pools

-----------------------------------------------------------------------------
(* upload_file: file name handling *)

RECURSIVE rfind(_, _, _)
\* str.rfind: the last index of c in s[1..i], 0 when there is none
rfind(s, c, i) ==
    IF i = 0 THEN 0
    ELSE IF s[i] = c THEN i ELSE rfind(s, c, i - 1)

\* os.path.splitext(p)[1]: from the last dot of the last path component,
\* unless that component has only dots before it
splitext(p) ==
    LET sepIndex == rfind(p, "/", Len(p))
        dotIndex == rfind(p, ".", Len(p))
    IN  IF dotIndex > sepIndex
           /\ \E i \in (sepIndex + 1)..(dotIndex - 1) : p[i] # "."
        THEN SubSeq(p, dotIndex, Len(p))
        ELSE <<>>

AllowedExtensions ==
    { <<".", "j", "p", "g">>, <<".", "j", "p", "e", "g">>,
      <<".", "p", "n", "g">>, <<".", "p", "d", "f">> }

\* os.path.splitext(file.filename)[1].lower(), for each file name of the requests
Extension == [filename \in Filenames |-> Lower(splitext(filename))]

file_extension(filename) == Extension[filename]

RECURSIVE strip(_)
\* str.strip()
strip(s) ==
    IF s = <<>> THEN s
    ELSE IF Head(s) = " " THEN strip(Tail(s))
    ELSE IF s[Len(s)] = " " THEN strip(SubSeq(s, 1, Len(s) - 1))
    ELSE s

IsKept(c) == c \in Alnum \/ c \in {".", "_", "-"}

\* "".join(c for c in filename if c.isalnum() or c in ('.', '_', '-')).strip(),
\* for each file name of the requests
Sanitized == [filename \in Filenames |-> strip(SelectSeq(filename, IsKept))]

sanitize(filename) == Sanitized[filename]

\* f"uploaded_file_{datetime.now().strftime('%Y%m%d%H%M%S')}{file_extension}"
synthesized(t, ext) == <<"uploaded_file_", ToString(t)>> \o ext

sanitized_filename(filename, t) ==
    IF sanitize(filename) = <<>>
    THEN synthesized(t, file_extension(filename))
    ELSE sanitize(filename)

-----------------------------------------------------------------------------
(* BACKUP_FOLDER *)

\* the directory with the file `name` holding `bytes`
put(d, name, bytes) ==
    [n \in (DOMAIN d) \cup {name} |-> IF n = name THEN bytes ELSE d[n]]

\* open(file_path, "wb"): the file is created, or truncated when it exists
open_wb(d, name) == put(d, name, <<>>)

\* os.remove(file_path)
os_remove(d, name) == [n \in (DOMAIN d) \ {name} |-> d[n]]

\* a write of `chunk` at offset `off` (0-based) of a file holding `data`;
\* bytes between the end of the file and `off` read as 0
write_at(data, off, chunk) ==
    [i \in 1..(IF Len(data) > off + Len(chunk) THEN Len(data)
               ELSE off + Len(chunk)) |->
        IF i > off /\ i <= off + Len(chunk) THEN chunk[i - off]
        ELSE IF i <= Len(data) THEN data[i]
        ELSE 0]

\* the chunk the copy loop reads at offset `off` of the upload
read_chunk(content, off) ==
    SubSeq(content, off + 1,
           IF off + ChunkLen < Len(content) THEN off + ChunkLen ELSE Len(content))

RECURSIVE copy_loop(_, _, _, _)
\* shutil.copyfileobj(file.file, buffer): at most `n` rounds of read and write
copy_loop(data, content, off, n) ==
    IF n = 0 \/ off >= Len(content) THEN data
    ELSE copy_loop(write_at(data, off, read_chunk(content, off)), content,
                   off + Len(read_chunk(content, off)), n - 1)

\* copyfileobj with the file opened "ab": the upload lands after the old bytes
copyfileobj_append(d, name, content, n) ==
    put(d, name, copy_loop(IF name \in DOMAIN d THEN d[name] ELSE <<>>, content,
                           IF name \in DOMAIN d THEN Len(d[name]) ELSE 0, n))

\* with open(file_path, "wb") as buffer: shutil.copyfileobj(file.file, buffer)
copyfileobj(d, name, content, n) ==
    put(d, name, copy_loop(<<>>, content, 0, n))

-----------------------------------------------------------------------------
(* uploaded_files *)

\* UploadedFile(filename=..., owner=..., work_detail=..., client_ip=...)
\* with the column defaults applied at insert
UploadedFile(filename, owner, work_detail, client_ip, t) ==
    [ filename |-> filename,
      owner |-> owner,
      work_detail |-> work_detail,
      uploaded_at |-> t,
      client_ip |-> client_ip,
      ocr_text |-> None,
      receipt_date |-> None,
      total_amount |-> None,
      similarity_status |-> Some("No"),
      similar_to_file_id |-> None,
      similarity_score |-> None ]

\* db.add(new_file); db.commit()
db_add(tbl, id, row) == tbl @@ (id :> row)

\* db.delete(file); db.commit()
db_delete(tbl, id) == [i \in (DOMAIN tbl) \ {id} |-> tbl[i]]

\* db_rollback that leaves the changes of the session in place
db_rollback_keep(committed, pending) == pending

\* db.rollback(): the changes of the session are dropped
db_rollback(committed, pending) == committed

\* select(UploadedFile).where(UploadedFile.id == file_id) ... .first()
select_by_id(tbl, file_id) ==
    IF file_id \in DOMAIN tbl THEN Some(tbl[file_id]) ELSE None

\* select(UploadedFile).where(UploadedFile.id == file_id,
\*                            UploadedFile.owner == owner) ... .first()
select_by_id_owner(tbl, file_id, owner) ==
    IF file_id \in DOMAIN tbl /\ tbl[file_id].owner = owner
    THEN Some(tbl[file_id]) ELSE None

-----------------------------------------------------------------------------
(* Errors *)

\* what a handler's try block raised: 0 nothing, an HTTPException's status
\* code, or another exception: OSError from the file system, DbError from
\* the session
OSError == -2
DbError == -1

\* except Exception as e: raise HTTPException(status_code=500, ...)
\* HTTPException is an Exception, so the clause catches it as well
except_Exception(raised) == 500

\* the status the client receives
status_of(raised) == IF raised = 0 THEN 200 ELSE except_Exception(raised)

-----------------------------------------------------------------------------------------------------------------------------------------------------
(* POST /api/upload *)

UploadFaults == {"none", "open", "commit"}

\* the form fields and the peer address that come with the file
UploadForms ==
    { [owner |-> "alice", work_detail |-> Some("receipt"),
       client_ip |-> Some("10.0.0.7")],
      [owner |-> "bob", work_detail |-> None, client_ip |-> Some("10.0.0.7")] }

\* what the try block of upload_file raises
upload_raised(filename, fault) ==
    IF filename = <<>> THEN 400
    ELSE IF file_extension(filename) \notin AllowedExtensions THEN 400
    ELSE IF fault = "open" THEN OSError
    ELSE IF fault = "commit" THEN 500
    ELSE 0

upload_file(filename, content, form, fault) ==
    LET name == sanitized_filename(filename, now)
        raised == upload_raised(filename, fault)
        new_file == UploadedFile(name, form.owner, form.work_detail, form.client_ip, now)
        req == [op |-> "upload", raised |-> raised, status |-> status_of(raised)]
    IN
    /\ UNCHANGED <<pool, wpc, wreq, woff, wresp, lastWriter>>
    /\ IF raised = 400
       THEN \* raise HTTPException(status_code=400, ...)
            /\ fault = "none"
            /\ resp' = req
            /\ UNCHANGED <<table, disk, nextId, now>>
       ELSE IF fault = "open"
       THEN \* os.makedirs or open raises
            /\ resp' = req
            /\ UNCHANGED <<table, disk, nextId, now>>
       ELSE IF fault = "commit"
       THEN \* db.add / db.commit raises: db.rollback(), raise 500
            /\ resp' = req
            /\ disk' = copyfileobj(disk, name, content, Len(content))
            /\ table' = db_rollback(table, db_add(table, nextId, new_file))
            /\ UNCHANGED <<nextId, now>>
       ELSE /\ nextId <= MaxId
            /\ resp' = req @@ [id |-> nextId]
            /\ disk' = copyfileobj(disk, name, content, Len(content))
            /\ table' = db_add(table, nextId, new_file)
            /\ nextId' = nextId + 1
            /\ now' = now + 1

Upload ==
    \E filename \in pool, content \in Contents, form \in UploadForms,
       fault \in UploadFaults :
        upload_file(filename, content, form, fault)

-----------------------------------------------------------------------------
(* GET /api/files/{file_id} *)

Ids == 1..(MaxId + 1)

ReadFaults == {"none", "select"}

\* what the try block of get_file_details raises
get_raised(tbl, file_id, fault) ==
    IF fault = "select" THEN DbError
    ELSE IF select_by_id(tbl, file_id) = None THEN 404
    ELSE 0

get_file_details(file_id, fault) ==
    LET raised == get_raised(table, file_id, fault)
    IN
    /\ UNCHANGED <<table, disk, nextId, now, pool, wpc, wreq, woff, wresp, lastWriter>>
    /\ resp' = [op |-> "get", raised |-> raised, status |-> status_of(raised)]

GetFileDetails ==
    \E file_id \in Ids, fault \in ReadFaults : get_file_details(file_id, fault)

-----------------------------------------------------------------------------
(* PUT /api/files/{file_id} *)

\* dateutil.parser.parse(receipt_date): <<year, month, day, hour, minute>>,
\* or <<>> for a ValueError
dateutil_parse(s) ==
    CASE s = "2024-01-31T10:30" -> <<2024, 1, 31, 10, 30>>
      [] s = "2024-01-31" -> <<2024, 1, 31, 0, 0>>
      [] OTHER -> <<>>

\* datetime.date()
date(dt) == SubSeq(dt, 1, 3)

\* the form of a PUT: owner is required, every other field is None when the
\* client leaves it out
FormFull ==
    [ owner |-> "bob", work_detail |-> Some("audit"),
      ocr_text |-> Some("TOTAL 12.50"),
      receipt_date |-> Some("2024-01-31T10:30"), total_amount |-> Some(1250),
      similarity_status |-> Some("Yes"), similar_to_file_id |-> Some(1),
      similarity_score |-> Some(87) ]

FormBare ==
    [ owner |-> "alice", work_detail |-> None, ocr_text |-> None,
      receipt_date |-> None, total_amount |-> None,
      similarity_status |-> None, similar_to_file_id |-> None,
      similarity_score |-> None ]

FormEmptyDate == [FormBare EXCEPT !.receipt_date = Some("")]

FormBadDate == [FormBare EXCEPT !.receipt_date = Some("31-31-2024")]

Forms == {FormFull, FormBare, FormEmptyDate, FormBadDate}

\* if receipt_date: (None and "" are falsy)
HasDate(form) == form.receipt_date # None /\ form.receipt_date # Some("")

\* assign_fields as a partial patch: a field left out keeps its old value
assign_fields_patch(file, form) ==
    [ file EXCEPT
        !.owner = form.owner,
        !.work_detail = IF form.work_detail = None THEN @ ELSE form.work_detail,
        !.ocr_text = IF form.ocr_text = None THEN @ ELSE form.ocr_text,
        !.receipt_date =
            IF HasDate(form)
            THEN Some(date(dateutil_parse(form.receipt_date[1])))
            ELSE @,
        !.total_amount = IF form.total_amount = None THEN @ ELSE form.total_amount,
        !.similarity_status =
            IF form.similarity_status = None THEN @ ELSE form.similarity_status,
        !.similar_to_file_id =
            IF form.similar_to_file_id = None THEN @ ELSE form.similar_to_file_id,
        !.similarity_score =
            IF form.similarity_score = None THEN @ ELSE form.similarity_score ]

\* the assignments file.owner = owner ... file.similarity_score = similarity_score
assign_fields(file, form) ==
    [ file EXCEPT
        !.owner = form.owner,
        !.work_detail = form.work_detail,
        !.ocr_text = form.ocr_text,
        !.receipt_date =
            IF HasDate(form)
            THEN Some(date(dateutil_parse(form.receipt_date[1])))
            ELSE None,
        !.total_amount = form.total_amount,
        !.similarity_status = form.similarity_status,
        !.similar_to_file_id = form.similar_to_file_id,
        !.similarity_score = form.similarity_score ]

WriteFaults == {"none", "commit"}

\* what the try block of update_file raises
update_raised(tbl, file_id, form, fault) ==
    IF select_by_id(tbl, file_id) = None THEN 404
    ELSE IF HasDate(form) /\ dateutil_parse(form.receipt_date[1]) = <<>> THEN 400
    ELSE IF fault = "commit" THEN DbError
    ELSE 0

update_file(file_id, form, fault) ==
    LET found == select_by_id(table, file_id)
        raised == update_raised(table, file_id, form, fault)
        pending == [table EXCEPT ![file_id] = assign_fields(found[1], form)]
    IN
    /\ UNCHANGED <<disk, nextId, now, pool, wpc, wreq, woff, wresp, lastWriter>>
    /\ resp' = IF raised = 0
               THEN [op |-> "update", raised |-> raised, status |-> status_of(raised),
                     id |-> file_id]
               ELSE [op |-> "update", raised |-> raised, status |-> status_of(raised)]
    /\ IF raised = 404
       THEN table' = db_rollback(table, table)
       ELSE IF raised = 400
       THEN \* the first three assignments are made, then the parse raises
            table' = db_rollback(table,
                       [table EXCEPT ![file_id].owner = form.owner,
                                     ![file_id].work_detail = form.work_detail,
                                     ![file_id].ocr_text = form.ocr_text])
       ELSE IF fault = "commit"
       THEN table' = db_rollback(table, pending)
       ELSE table' = pending

UpdateFile ==
    \E file_id \in Ids, form \in Forms, fault \in WriteFaults :
        update_file(file_id, form, fault)

-----------------------------------------------------------------------------
(* DELETE /api/files/{file_id} *)

DeleteFaults == {"none", "remove", "commit"}

\* os.path.exists(file_path)
os_path_exists(d, name) == name \in DOMAIN d

\* what the try block of delete_file raises
delete_raised(tbl, d, file_id, owner, fault) ==
    LET found == select_by_id_owner(tbl, file_id, owner)
    IN  IF found = None THEN 404
        ELSE IF fault = "remove" /\ os_path_exists(d, found[1].filename) THEN OSError
        ELSE IF fault = "commit" THEN DbError
        ELSE 0

delete_file(file_id, owner, fault) ==
    LET found == select_by_id_owner(table, file_id, owner)
        raised == delete_raised(table, disk, file_id, owner, fault)
    IN
    /\ UNCHANGED <<nextId, now, pool, wpc, wreq, woff, wresp, lastWriter>>
    /\ resp' = [op |-> "delete", raised |-> raised, status |-> status_of(raised)]
    /\ IF found = None
       THEN /\ table' = db_rollback(table, table)
            /\ UNCHANGED disk
       ELSE IF fault = "remove"
       THEN \* os.remove raises
            /\ os_path_exists(disk, found[1].filename)
            /\ table' = db_rollback(table, table)
            /\ UNCHANGED disk
       ELSE /\ disk' = IF os_path_exists(disk, found[1].filename)
                       THEN os_remove(disk, found[1].filename)
                       ELSE disk
            /\ table' = IF fault = "commit"
                        THEN db_rollback(table, db_delete(table, file_id))
                        ELSE db_delete(table, file_id)

DeleteFile ==
    \E file_id \in Ids, owner \in Owners, fault \in DeleteFaults :
        delete_file(file_id, owner, fault)

-----------------------------------------------------------------------------
(* GET /api/download/{file_id} *)

\* what the try block of download_file raises
download_raised(tbl, d, file_id, fault) ==
    LET found == select_by_id(tbl, file_id)
    IN  IF fault = "select" THEN DbError
        ELSE IF found = None THEN 404
        ELSE IF ~os_path_exists(d, found[1].filename) THEN 404
        ELSE 0

download_file(file_id, fault) ==
    LET raised == download_raised(table, disk, file_id, fault)
    IN
    /\ UNCHANGED <<table, disk, nextId, now, pool, wpc, wreq, woff, wresp, lastWriter>>
    /\ resp' = [op |-> "download", raised |-> raised, status |-> status_of(raised)]

DownloadFile ==
    \E file_id \in Ids, fault \in ReadFaults : download_file(file_id, fault)

-----------------------------------------------------------------------------
(* One event loop *)

Workers == {1, 2}

Init ==
    /\ table = <<>>
    /\ disk = <<>>
    /\ nextId = 1
    /\ now = 0
    /\ resp = [op |-> "start"]
    /\ pool \in Pools
    /\ wpc = [w \in Workers |-> "idle"]
    /\ wreq = [w \in Workers |-> None]
    /\ woff = [w \in Workers |-> 0]
    /\ wresp = [w \in Workers |-> None]
    /\ lastWriter = <<>>

Next ==
    \/ Upload
    \/ GetFileDetails
    \/ UpdateFile
    \/ DeleteFile
    \/ DownloadFile

Spec == Init /\ [][Next]_vars

-----------------------------------------------------------------------------
(* Two worker processes, one upload each: the steps of upload_file *)

\* the request arrives; the extension check runs
WReceive(w, filename, content, form) ==
    LET raised == upload_raised(filename, "none")
    IN
    /\ wpc[w] = "idle"
    /\ wreq' = [wreq EXCEPT ![w] = [filename |-> filename, content |-> content,
                                    form |-> form,
                                    name |-> sanitized_filename(filename, now)]]
    /\ IF raised = 400
       THEN /\ wpc' = [wpc EXCEPT ![w] = "done"]
            /\ wresp' = [wresp EXCEPT ![w] = [raised |-> raised,
                                              status |-> status_of(raised)]]
       ELSE /\ wpc' = [wpc EXCEPT ![w] = "open"]
            /\ UNCHANGED wresp
    /\ UNCHANGED <<table, disk, nextId, now, resp, pool, woff, lastWriter>>

\* with open(file_path, "wb") as buffer:
WOpen(w) ==
    /\ wpc[w] = "open"
    /\ disk' = open_wb(disk, wreq[w].name)
    /\ woff' = [woff EXCEPT ![w] = 0]
    /\ wpc' = [wpc EXCEPT ![w] = "copy"]
    /\ UNCHANGED <<table, nextId, now, resp, pool, wreq, wresp, lastWriter>>

\* one round of shutil.copyfileobj: the chunk lands at this worker's offset
WWrite(w) ==
    LET name == wreq[w].name
        chunk == read_chunk(wreq[w].content, woff[w])
    IN
    /\ wpc[w] = "copy"
    /\ woff[w] < Len(wreq[w].content)
    /\ disk' = put(disk, name, write_at(disk[name], woff[w], chunk))
    /\ woff' = [woff EXCEPT ![w] = woff[w] + Len(chunk)]
    /\ lastWriter' = put(lastWriter, name, w)
    /\ UNCHANGED <<table, nextId, now, resp, pool, wpc, wreq, wresp>>

\* the copy has read the whole upload; the file is closed
WClose(w) ==
    /\ wpc[w] = "copy"
    /\ woff[w] >= Len(wreq[w].content)
    /\ wpc' = [wpc EXCEPT ![w] = "insert"]
    /\ UNCHANGED <<table, disk, nextId, now, resp, pool, wreq, woff, wresp, lastWriter>>

\* db.add(new_file); db.commit(); db.refresh(new_file); return 200
WInsert(w) ==
    /\ wpc[w] = "insert"
    /\ table' = db_add(table, nextId,
                       UploadedFile(wreq[w].name, wreq[w].form.owner,
                                    wreq[w].form.work_detail,
                                    wreq[w].form.client_ip, now))
    /\ nextId' = nextId + 1
    /\ now' = now + 1
    /\ wresp' = [wresp EXCEPT ![w] = [raised |-> 0, status |-> status_of(0),
                                      id |-> nextId]]
    /\ wpc' = [wpc EXCEPT ![w] = "done"]
    /\ UNCHANGED <<disk, resp, pool, wreq, woff, lastWriter>>

Receive ==
    \E w \in Workers, filename \in pool, content \in Contents, form \in UploadForms :
        WReceive(w, filename, content, form)

Open == \E w \in Workers : WOpen(w)

Write == \E w \in Workers : WWrite(w)

Close == \E w \in Workers : WClose(w)

Insert == \E w \in Workers : WInsert(w)

NextConc ==
    \/ Receive
    \/ Open
    \/ Write
    \/ Close
    \/ Insert

SpecConc == Init /\ [][NextConc]_vars

-----------------------------------------------------------------------------
(* Properties *)

\* the extension of the file name is one of .jpg .jpeg .png .pdf
Accepted(filename) == file_extension(filename) \in AllowedExtensions

AcceptedFilenames == {filename \in Filenames : Accepted(filename)}

RejectedFilenames == Filenames \ AcceptedFilenames

\* the file name without its extension
stem(filename) == SubSeq(filename, 1, Len(filename) - Len(splitext(filename)))

\* apart from its extension the file name holds disallowed characters only
AllDisallowed(filename) ==
    \A i \in 1..Len(stem(filename)) : ~IsKept(stem(filename)[i])

\* the rows whose file is `name`
RowsNamed(tbl, name) == {i \in DOMAIN tbl : tbl[i].filename = name}

\* C1: delete(id, owner) on a row of another owner answers 404, as it does
\* for an id with no row, and leaves the table and the directory as they were.
C1_DeleteOwnerMismatchIs404 ==
    [][resp'.op = "delete" =>
        \A file_id \in Ids, owner \in Owners :
            ( /\ file_id \in DOMAIN table
              /\ table[file_id].owner # owner
              /\ delete_file(file_id, owner, "none") )
            => /\ resp'.status = 404
               /\ \A other \in Ids \ DOMAIN table :
                    status_of(delete_raised(table, disk, other, owner, "none"))
                        = resp'.status
               /\ table' = table
               /\ disk' = disk]_vars

\* C2: an upload whose extension is not accepted answers 400 and leaves the
\* table and the directory as they were.
C2_BadExtensionIs400 ==
    [][resp'.op = "upload" =>
        \A filename \in pool \cap RejectedFilenames,
           content \in Contents, form \in UploadForms :
            upload_file(filename, content, form, "none")
            => /\ resp'.status = 400
               /\ table' = table
               /\ disk' = disk]_vars

\* C3: a fault-free upload with an accepted extension answers 200 and adds
\* exactly one row, under an id no row had, with the sanitized file name, the
\* given owner and similarity_status "No"; the file of that name holds the
\* uploaded bytes; every other row is as it was.
C3_AcceptedUploadAddsOneRow ==
    [][resp'.op = "upload" =>
        \A filename \in pool \cap AcceptedFilenames,
           content \in Contents, form \in UploadForms :
            upload_file(filename, content, form, "none")
            => /\ resp'.status = 200
               /\ resp'.id \notin DOMAIN table
               /\ DOMAIN table' = (DOMAIN table) \cup {resp'.id}
               /\ \A i \in DOMAIN table : table'[i] = table[i]
               /\ table'[resp'.id].filename = SelectSeq(filename, IsKept)
               /\ table'[resp'.id].owner = form.owner
               /\ table'[resp'.id].similarity_status = Some("No")
               /\ table'[resp'.id].filename \in DOMAIN disk'
               /\ disk'[table'[resp'.id].filename] = content]_vars

\* C3 witness: an upload has succeeded beside another row, over a file that
\* was there before
C3_Witness ==
    /\ resp.op = "upload"
    /\ resp.raised = 0
    /\ resp.id \in DOMAIN table
    /\ Cardinality(DOMAIN table) >= 2
    /\ Cardinality(RowsNamed(table, table[resp.id].filename)) >= 2
    /\ table[resp.id].filename \in DOMAIN disk

\* C4: a request that finds no row (get, update, download, delete), and a
\* download whose file is missing, answer 404; get, update, download and
\* delete served without a store or disk fault never answer 500.
C4_NotFoundIs404 ==
    [][ /\ \A file_id \in Ids :
            /\ (file_id \notin DOMAIN table /\ get_file_details(file_id, "none"))
                    => resp'.status = 404
            /\ (file_id \notin DOMAIN table /\ download_file(file_id, "none"))
                    => resp'.status = 404
            /\ ( /\ file_id \in DOMAIN table
                 /\ ~os_path_exists(disk, table[file_id].filename)
                 /\ download_file(file_id, "none") )
                    => resp'.status = 404
            /\ \A form \in Forms :
                    (file_id \notin DOMAIN table /\ update_file(file_id, form, "none"))
                    => resp'.status = 404
            /\ \A owner \in Owners :
                    ( /\ select_by_id_owner(table, file_id, owner) = None
                      /\ delete_file(file_id, owner, "none") )
                    => resp'.status = 404
        /\ resp'.status = 500 =>
            \A file_id \in Ids :
                /\ ~get_file_details(file_id, "none")
                /\ ~download_file(file_id, "none")
                /\ \A form \in Forms : ~update_file(file_id, form, "none")
                /\ \A owner \in Owners : ~delete_file(file_id, owner, "none") ]_vars

\* C5: an update that answers 200 sets owner, work_detail, ocr_text,
\* total_amount, similarity_status, similar_to_file_id and similarity_score to
\* the values of the form (None for a field left out), sets receipt_date to
\* the calendar date of the form's string, or to None when that is empty or
\* left out, and leaves the row's filename, uploaded_at and client_ip, every
\* other row and the directory as they were.
C5_UpdateReplacesWholesale ==
    [][(resp'.op = "update" /\ resp'.status = 200) =>
        \A file_id \in Ids, form \in Forms, fault \in WriteFaults :
            update_file(file_id, form, fault)
            => /\ file_id \in DOMAIN table
               /\ DOMAIN table' = DOMAIN table
               /\ table'[file_id].owner = form.owner
               /\ table'[file_id].work_detail = form.work_detail
               /\ table'[file_id].ocr_text = form.ocr_text
               /\ table'[file_id].total_amount = form.total_amount
               /\ table'[file_id].similarity_status = form.similarity_status
               /\ table'[file_id].similar_to_file_id = form.similar_to_file_id
               /\ table'[file_id].similarity_score = form.similarity_score
               /\ form.receipt_date \in {None, Some("")}
                    => table'[file_id].receipt_date = None
               /\ form.receipt_date \in {Some("2024-01-31T10:30"), Some("2024-01-31")}
                    => table'[file_id].receipt_date = Some(<<2024, 1, 31>>)
               /\ table'[file_id].filename = table[file_id].filename
               /\ table'[file_id].uploaded_at = table[file_id].uploaded_at
               /\ table'[file_id].client_ip = table[file_id].client_ip
               /\ \A j \in (DOMAIN table) \ {file_id} : table'[j] = table[j]
               /\ disk' = disk]_vars

\* C5 witness: an update has left a row with every optional field None,
\* beside a row that holds a receipt date, with files in the directory
C5_Witness ==
    /\ resp.op = "update"
    /\ resp.raised = 0
    /\ resp.id \in DOMAIN table
    /\ table[resp.id].receipt_date = None
    /\ table[resp.id].similarity_status = None
    /\ table[resp.id].client_ip # None
    /\ \E j \in (DOMAIN table) \ {resp.id} : table[j].receipt_date # None
    /\ disk # <<>>

\* C6: delete(id, owner) on a matching row whose file is missing answers 200
\* and removes the row; get(id) and a second delete(id, owner) then answer 404.
C6_DeleteWithoutBlobThenNotFound ==
    [][resp'.op = "delete" =>
        \A file_id \in Ids, owner \in Owners :
            ( /\ select_by_id_owner(table, file_id, owner) # None
              /\ ~os_path_exists(disk, table[file_id].filename)
              /\ delete_file(file_id, owner, "none") )
            => /\ resp'.status = 200
               /\ file_id \notin DOMAIN table'
               /\ status_of(get_raised(table', file_id, "none")) = 404
               /\ status_of(delete_raised(table', disk', file_id, owner, "none"))
                    = 404]_vars

\* C7: an accepted upload whose name, apart from the extension, holds only
\* disallowed characters is stored as uploaded_file_<timestamp><extension>.
C7_AllDisallowedNameIsSynthesized ==
    [][resp'.op = "upload" =>
        \A filename \in pool \cap AcceptedFilenames,
           content \in Contents, form \in UploadForms :
            (AllDisallowed(filename) /\ upload_file(filename, content, form, "none"))
            => /\ resp'.status = 200
               /\ table'[resp'.id].filename
                    = synthesized(now, file_extension(filename))
               /\ synthesized(now, file_extension(filename)) \in DOMAIN disk']_vars

\* C8: when two uploads of the same sanitized name have both been served,
\* both answered 200, two rows with distinct ids hold that name, and the file
\* holds exactly the bytes of the upload that wrote last.
C8_LastWriterWins ==
    ( /\ \A w \in Workers : wpc[w] = "done" /\ Accepted(wreq[w].filename)
      /\ wreq[1].name = wreq[2].name )
    => /\ \A w \in Workers : wresp[w].status = 200
       /\ wresp[1].id # wresp[2].id
       /\ \A w \in Workers : table[wresp[w].id].filename = wreq[1].name
       /\ disk[wreq[1].name] = wreq[lastWriter[wreq[1].name]].content

\* C9: an accepted upload whose blob write fails is refused and adds no row;
\* one whose insert fails answers 500, adds no row and leaves the written
\* blob in the directory; a row that is added has its blob written.
C9_RecordOnlyAfterBlob ==
    [][resp'.op = "upload" =>
        \A filename \in pool \cap AcceptedFilenames,
           content \in Contents, form \in UploadForms :
            /\ \/ /\ resp'.status # 200
                  /\ table' = table
               \/ ~upload_file(filename, content, form, "open")
            /\ \/ /\ resp'.status = 500
                  /\ table' = table
                  /\ SelectSeq(filename, IsKept) \in DOMAIN disk'
                  /\ disk'[SelectSeq(filename, IsKept)] = content
               \/ ~upload_file(filename, content, form, "commit")
            /\ \/ /\ table' # table
                  /\ \A i \in (DOMAIN table') \ (DOMAIN table) :
                        /\ table'[i].filename \in DOMAIN disk'
                        /\ disk'[table'[i].filename] = content
               \/ ~upload_file(filename, content, form, "none")]_vars

\* C9 witness: an upload has failed at the insert and its blob lies in the
\* directory with no row naming it
C9_Witness ==
    /\ resp.op = "upload"
    /\ resp.raised = 500
    /\ \E name \in DOMAIN disk : RowsNamed(table, name) = {}

\* C10: a delete that matches a row and fails at the removal of the row or at
\* its commit reports an error and leaves the row and its blob as they were.
C10_FailedDeleteChangesNothing ==
    [][resp'.op = "delete" =>
        \A file_id \in Ids, owner \in Owners :
            ( /\ select_by_id_owner(table, file_id, owner) # None
              /\ delete_file(file_id, owner, "commit") )
            => /\ resp'.status # 200
               /\ table' = table
               /\ disk' = disk]_vars

====
